---- MODULE Spec2Model ----
(***************************************************************************)
(* Model of the two solutions of the repository:                           *)
(*   Solution.two_sum            (1_twoSum_python_mostEfficient.py)        *)
(*   Solution.containsDuplicate  (271containsDuplicatePythonMostEfficient) *)
(* A driver calls the two functions over and over with inputs drawn from   *)
(* bounded sets (and with the inputs of the two module-level demo calls).  *)
(* One action is one loop iteration, the loop exit, or a call.             *)
(* Python lists are 0-based; a list is modelled by a TLA+ sequence and     *)
(* read through At, so every index of the model is the index of the code.  *)
(***************************************************************************)
EXTENDS Integers, Sequences, FiniteSets

\* ---------------------------------------------------------------- bounds
MaxLen == 3
MaxVal == 2
\* longest list and largest value of the calls whose repetition is observed
\* (SpecRepeat)
MaxRepeatLen == 2
MaxRepeatVal == 1

Vals == 0..MaxVal
Targets == 0..(2 * MaxVal)

RECURSIVE SeqsUpTo(_, _)
SeqsUpTo(n, V) ==
    IF n = 0 THEN {<<>>}
    ELSE LET shorter == SeqsUpTo(n - 1, V)
         IN  shorter \cup {Append(s, v) : s \in {x \in shorter : Len(x) = n - 1}, v \in V}

Lists == SeqsUpTo(MaxLen, Vals)

RepeatVals == 0..MaxRepeatVal
RepeatTargets == 0..(2 * MaxRepeatVal)
RepeatLists == SeqsUpTo(MaxRepeatLen, RepeatVals)

VARIABLES
    pc,        \* "idle", "two_sum", "ts_return", "containsDuplicate", "cd_return",
               \* "IndexError", "KeyError"
    arr,       \* two_sum: parameter arr
    target,    \* two_sum: parameter target
    hashmap,   \* two_sum: local dict value -> index
    i,         \* two_sum: loop variable (index of the iteration about to run)
    ret,       \* two_sum: returned value (None or [first, second])
    nums,      \* containsDuplicate: parameter nums
    seen,      \* containsDuplicate: local set
    pos,       \* containsDuplicate: position of the list iterator of "for n in nums"
    cdret,     \* containsDuplicate: returned value
    visited,   \* history: the indices whose element the running call has examined, in order
    mem,       \* history: one earlier completed call (function, input, output)
    between    \* history: some call with another input started after the remembered one

vars == <<pc, arr, target, hashmap, i, ret, nums, seen, pos, cdret, visited, mem, between>>

\* ------------------------------------------------------- Python primitives
\* None, the value of a function that falls off its end
None == <<>>

\* {} : the empty dict
EmptyDict == <<>>

\* a[k] on a list: defined for 0 <= k < len(a), IndexError otherwise
InRange(a, k) == 0 <= k /\ k < Len(a)
At(a, k) == a[k + 1]

\* key in d
Contains(d, key) == key \in DOMAIN d

\* d[key] = value: inserts the key or overwrites its value
StoreKeepFirst(d, key, value) ==
    IF key \in DOMAIN d THEN d
    ELSE [x \in (DOMAIN d) \cup {key} |-> IF x = key THEN value ELSE d[x]]

StoreSwapped(d, key, value) ==
    [x \in (DOMAIN d) \cup {value} |-> IF x = value THEN key ELSE d[x]]

Store(d, key, value) ==
    [x \in (DOMAIN d) \cup {key} |-> IF x = key THEN value ELSE d[x]]

\* range(len(a)) yields 0, 1, ..., len(a) - 1
RangeShort(a) == Len(a) - 1

RangeLong(a) == Len(a) + 1

RangeLen(a) == Len(a)

\* complement = target - arr[i]
Complement(t, v) == t - v

\* [hashmap[complement], i]
Pair(first, second) == <<first, second>>

\* seen.add(n)
SeenAddNothing(s, n) == s

SeenAdd(s, n) == s \cup {n}

\* ------------------------------------------------------------ the history
NoCall == [fn |-> "none", arr |-> <<>>, target |-> 0, out |-> <<>>]

\* the call that has just returned, if any
Finished ==
    IF pc = "ts_return" THEN [fn |-> "two_sum", arr |-> arr, target |-> target, out |-> ret]
    ELSE IF pc = "cd_return" THEN [fn |-> "containsDuplicate", arr |-> nums, target |-> 0, out |-> cdret]
    ELSE NoCall

SameInput(m, fn, a, t) == m.fn = fn /\ m.arr = a /\ m.target = t

\* at a call: keep the remembered call or remember the one that has just returned
Recall(fn, a, t) ==
    \E keep \in BOOLEAN :
        IF keep \/ Finished = NoCall
        THEN /\ mem' = mem
             /\ between' = (between \/ (mem # NoCall /\ Finished # NoCall
                                          /\ ~SameInput(mem, Finished.fn, Finished.arr, Finished.target)))
        ELSE /\ mem' = Finished
             /\ between' = FALSE

Callable == pc \in {"idle", "ts_return", "cd_return"}

\* ------------------------------------------------------------------ Init
Init ==
    /\ pc = "idle"
    /\ arr = <<>>
    /\ target = 0
    /\ hashmap = EmptyDict
    /\ i = 0
    /\ ret = None
    /\ nums = <<>>
    /\ seen = {}
    /\ pos = 0
    /\ cdret = FALSE
    /\ visited = <<>>
    /\ mem = NoCall
    /\ between = FALSE

\* --------------------------------------------------------------- two_sum
\* entry of two_sum: binds the parameters, hashmap = {}
TsEnterStale(a, t) ==
    /\ Callable
    /\ pc' = "two_sum"
    /\ arr' = a
    /\ target' = t
    /\ i' = 0
    /\ ret' = None
    /\ visited' = <<>>
    /\ nums' = <<>>
    /\ seen' = {}
    /\ pos' = 0
    /\ cdret' = FALSE
    /\ UNCHANGED hashmap

TsEnter(a, t) ==
    /\ Callable
    /\ pc' = "two_sum"
    /\ arr' = a
    /\ target' = t
    /\ hashmap' = EmptyDict
    /\ i' = 0
    /\ ret' = None
    /\ visited' = <<>>
    /\ nums' = <<>>
    /\ seen' = {}
    /\ pos' = 0
    /\ cdret' = FALSE

\* a call of two_sum
TsCall(a, t) == TsEnter(a, t) /\ UNCHANGED <<mem, between>>

\* a call of two_sum that may repeat a remembered one
TsCallAgain(a, t) == TsEnter(a, t) /\ Recall("two_sum", a, t)

\* one iteration of "for i in range(len(arr))"
TsIterLastHit ==
    /\ pc = "two_sum"
    /\ i < RangeLen(arr)
    /\ LET complement == Complement(target, At(arr, i))
       IN  /\ ret' = IF Contains(hashmap, complement) THEN Pair(hashmap[complement], i) ELSE ret
           /\ hashmap' = Store(hashmap, At(arr, i), i)
           /\ visited' = Append(visited, i)
           /\ IF i + 1 < RangeLen(arr) \/ ret' = None
              THEN i' = i + 1 /\ pc' = pc
              ELSE i' = i /\ pc' = "ts_return"
    /\ UNCHANGED <<arr, target, nums, seen, pos, cdret, mem, between>>

TsIterStoreFirst ==
    /\ pc = "two_sum"
    /\ i < RangeLen(arr)
    /\ LET stored == Store(hashmap, At(arr, i), i)
           complement == Complement(target, At(arr, i))
       IN  /\ visited' = Append(visited, i)
           /\ IF Contains(stored, complement)
              THEN /\ ret' = Pair(stored[complement], i)
                   /\ pc' = "ts_return"
                   /\ UNCHANGED <<hashmap, i>>
              ELSE /\ hashmap' = stored
                   /\ i' = i + 1
                   /\ UNCHANGED <<pc, ret>>
    /\ UNCHANGED <<arr, target, nums, seen, pos, cdret, mem, between>>

TsIter ==
    /\ pc = "two_sum"
    /\ i < RangeLen(arr)
    /\ IF ~InRange(arr, i)
       THEN /\ pc' = "IndexError"
            /\ UNCHANGED <<hashmap, i, ret, visited>>
       ELSE LET complement == Complement(target, At(arr, i))
            IN  /\ visited' = Append(visited, i)
                /\ IF Contains(hashmap, complement)
                   THEN IF complement \in DOMAIN hashmap
                        THEN /\ ret' = Pair(hashmap[complement], i)
                             /\ pc' = "ts_return"
                             /\ UNCHANGED <<hashmap, i>>
                        ELSE /\ pc' = "KeyError"
                             /\ UNCHANGED <<hashmap, i, ret>>
                   ELSE /\ hashmap' = Store(hashmap, At(arr, i), i)
                        /\ i' = i + 1
                        /\ UNCHANGED <<pc, ret>>
    /\ UNCHANGED <<arr, target, nums, seen, pos, cdret, mem, between>>

\* the range is exhausted: the function falls off its end and returns None
TsExit ==
    /\ pc = "two_sum"
    /\ ~(i < RangeLen(arr))
    /\ ret' = None
    /\ pc' = "ts_return"
    /\ UNCHANGED <<arr, target, hashmap, i, nums, seen, pos, cdret, visited, mem, between>>

\* print(sol.two_sum([1,2,3,4,5],9))
DemoTwoSum == TsCall(<<1, 2, 3, 4, 5>>, 9)

\* ----------------------------------------------------- containsDuplicate
\* entry of containsDuplicate: binds nums, seen = set()
CdEnterStale(a) ==
    /\ Callable
    /\ pc' = "containsDuplicate"
    /\ nums' = a
    /\ pos' = 0
    /\ cdret' = FALSE
    /\ visited' = <<>>
    /\ arr' = <<>>
    /\ target' = 0
    /\ hashmap' = EmptyDict
    /\ i' = 0
    /\ ret' = None
    /\ UNCHANGED seen

CdEnter(a) ==
    /\ Callable
    /\ pc' = "containsDuplicate"
    /\ nums' = a
    /\ seen' = {}
    /\ pos' = 0
    /\ cdret' = FALSE
    /\ visited' = <<>>
    /\ arr' = <<>>
    /\ target' = 0
    /\ hashmap' = EmptyDict
    /\ i' = 0
    /\ ret' = None

\* a call of containsDuplicate
CdCall(a) == CdEnter(a) /\ UNCHANGED <<mem, between>>

\* a call of containsDuplicate that may repeat a remembered one
CdCallAgain(a) == CdEnter(a) /\ Recall("containsDuplicate", a, 0)

\* one iteration of "for n in nums"
CdIterNoShortCircuit ==
    /\ pc = "containsDuplicate"
    /\ pos < Len(nums)
    /\ LET n == At(nums, pos)
       IN  /\ visited' = Append(visited, pos)
           /\ cdret' = (cdret \/ n \in seen)
           /\ seen' = SeenAdd(seen, n)
           /\ IF pos + 1 < Len(nums) \/ ~cdret'
              THEN pos' = pos + 1 /\ pc' = pc
              ELSE pos' = pos /\ pc' = "cd_return"
    /\ UNCHANGED <<arr, target, hashmap, i, ret, nums, mem, between>>

CdIter ==
    /\ pc = "containsDuplicate"
    /\ pos < Len(nums)
    /\ LET n == At(nums, pos)
       IN  /\ visited' = Append(visited, pos)
           /\ IF n \in seen
              THEN /\ cdret' = TRUE
                   /\ pc' = "cd_return"
                   /\ UNCHANGED <<seen, pos>>
              ELSE /\ seen' = SeenAdd(seen, n)
                   /\ pos' = pos + 1
                   /\ UNCHANGED <<pc, cdret>>
    /\ UNCHANGED <<arr, target, hashmap, i, ret, nums, mem, between>>

\* the list is exhausted: return False
CdExit ==
    /\ pc = "containsDuplicate"
    /\ ~(pos < Len(nums))
    /\ cdret' = FALSE
    /\ pc' = "cd_return"
    /\ UNCHANGED <<arr, target, hashmap, i, ret, nums, seen, pos, visited, mem, between>>

\* print(sol.containsDuplicate([1,2,3,4,1]))
DemoContainsDuplicate == CdCall(<<1, 2, 3, 4, 1>>)

\* ------------------------------------------------------------------ Next
CallTwoSum == \E a \in Lists, t \in Targets : TsCall(a, t)

CallContainsDuplicate == \E a \in Lists : CdCall(a)

Next ==
    \/ CallTwoSum
    \/ DemoTwoSum
    \/ TsIter
    \/ TsExit
    \/ CallContainsDuplicate
    \/ DemoContainsDuplicate
    \/ CdIter
    \/ CdExit

Spec == Init /\ [][Next]_vars

\* the same program, with one earlier call remembered so that a later call
\* with the same input can be compared with it
RepeatTwoSum == \E a \in RepeatLists, t \in RepeatTargets : TsCallAgain(a, t)

RepeatDemoTwoSum == TsCallAgain(<<1, 2, 3, 4, 5>>, 9)

RepeatContainsDuplicate == \E a \in RepeatLists : CdCallAgain(a)

RepeatDemoContainsDuplicate == CdCallAgain(<<1, 2, 3, 4, 1>>)

NextRepeat ==
    \/ RepeatTwoSum
    \/ RepeatDemoTwoSum
    \/ TsIter
    \/ TsExit
    \/ RepeatContainsDuplicate
    \/ RepeatDemoContainsDuplicate
    \/ CdIter
    \/ CdExit

SpecRepeat == Init /\ [][NextRepeat]_vars

\* the program runs to completion: a started iteration or loop exit is eventually taken
SpecFair ==
    Spec /\ WF_vars(TsIter) /\ WF_vars(TsExit) /\ WF_vars(CdIter) /\ WF_vars(CdExit)

\* ------------------------------------------------- what the claims speak of
Indices(a) == 0..(Len(a) - 1)

\* two distinct positions of a whose values sum to t
PairExists(a, t) ==
    \E x \in Indices(a), y \in Indices(a) : x # y /\ At(a, x) + At(a, y) = t

\* position y completes a pair with an earlier position
Completes(a, t, y) == \E x \in 0..(y - 1) : At(a, x) + At(a, y) = t

\* two distinct positions of a holding the same value
HasDuplicate(a) ==
    \E x \in Indices(a), y \in Indices(a) : x # y /\ At(a, x) = At(a, y)

\* position y repeats the value of an earlier position
Repeats(a, y) == \E x \in 0..(y - 1) : At(a, x) = At(a, y)

\* the indices 0, 1, ..., k - 1 in order
UpTo(k) == [m \in 1..k |-> m - 1]

Least(S) == CHOOSE x \in S : \A y \in S : x <= y
Greatest(S) == CHOOSE x \in S : \A y \in S : y <= x

\* the values a[0..k-1]
Prefix(a, k) == {At(a, m) : m \in 0..(k - 1)}

\* the positions below k that hold v
Holding(a, k, v) == {m \in 0..(k - 1) : At(a, m) = v}

ReturnedPair == pc = "ts_return" /\ ret # None

\* ---------------------------------------------------------------- claims
\* C1: whenever two_sum returns a pair [i, j], 0 <= i < j < len(S) and
\* S[i] + S[j] == t; an element is never paired with itself.
C1_PairValid ==
    ReturnedPair =>
        /\ Len(ret) = 2
        /\ 0 <= ret[1] /\ ret[1] < ret[2] /\ ret[2] < Len(arr)
        /\ ret[1] # ret[2]
        /\ At(arr, ret[1]) + At(arr, ret[2]) = target

\* target == 2*v is met by two distinct positions holding v
C1_Witness ==
    pc = "ts_return" /\ arr = <<0, 1, 1>> /\ target = 2 /\ ret = <<1, 2>>

\* C2: two_sum returns None if and only if no two distinct positions sum to
\* the target.
C2_NotFoundIff ==
    pc = "ts_return" => (ret = None <=> ~PairExists(arr, target))

\* the last element completes the only pair
C2_Witness ==
    pc = "ts_return" /\ arr = <<0, 0, 1>> /\ target = 1 /\ ret # None

\* C3: containsDuplicate returns True if and only if two distinct positions
\* hold the same value.
C3_DuplicateIff ==
    pc = "cd_return" => (cdret <=> HasDuplicate(nums))

C3_Witness ==
    pc = "cd_return" /\ nums = <<1, 2, 3, 4, 1>> /\ cdret

\* C4: neither function raises; two_sum completes with a pair or None and
\* containsDuplicate with a boolean; on the empty list two_sum returns None
\* and containsDuplicate returns False; every started call returns.
C4_NoError ==
    /\ pc \notin {"IndexError", "KeyError"}
    /\ pc = "ts_return" => (ret = None \/ Len(ret) = 2)
    /\ pc = "cd_return" => cdret \in BOOLEAN
    /\ (pc = "ts_return" /\ arr = <<>>) => ret = None
    /\ (pc = "cd_return" /\ nums = <<>>) => cdret = FALSE

C4_Completes ==
    /\ []C4_NoError
    /\ (pc = "two_sum") ~> (pc = "ts_return")
    /\ (pc = "containsDuplicate") ~> (pc = "cd_return")

\* the last index of the longest list has been read and the call returned
C4_Witness ==
    pc = "ts_return" /\ Len(arr) = MaxLen /\ ret = None /\ Len(visited) = MaxLen

\* C5: a call with the input of an earlier call returns what the earlier
\* call returned, whatever was called in between.
C5_Idempotent ==
    /\ (pc = "ts_return" /\ SameInput(mem, "two_sum", arr, target)) => ret = mem.out
    /\ (pc = "cd_return" /\ SameInput(mem, "containsDuplicate", nums, 0)) => cdret = mem.out

\* a repeated two_sum call, with another call in between
C5_Witness ==
    /\ pc = "ts_return"
    /\ SameInput(mem, "two_sum", arr, target)
    /\ between
    /\ arr = <<0, 1>> /\ target = 1 /\ ret = <<0, 1>>

\* C6: the returned second index j is the smallest index that completes a
\* pair with an earlier index, and the scan has examined exactly 0..j;
\* two_sum([1,2,3,4,5], 9) returns [3,4].
C6_EarliestCompleting ==
    /\ ReturnedPair =>
        /\ Completes(arr, target, ret[2])
        /\ \A y \in 0..(ret[2] - 1) : ~Completes(arr, target, y)
        /\ i = ret[2]
        /\ visited = UpTo(ret[2] + 1)
    /\ (pc = "ts_return" /\ arr = <<1, 2, 3, 4, 5>> /\ target = 9) => ret = <<3, 4>>

\* positions 1 and 2 both complete a pair with position 0
C6_Witness ==
    pc = "ts_return" /\ arr = <<0, 1, 1>> /\ target = 1 /\ ret = <<0, 1>>

\* C7 as stated: the table maps each value seen so far to the index of its
\* first occurrence, and a returned i is the smallest index holding t - S[j].
C7_FirstOccurrence ==
    /\ pc \in {"two_sum", "ts_return"} =>
        \A v \in DOMAIN hashmap : hashmap[v] = Least(Holding(arr, Len(arr), v))
    /\ ReturnedPair =>
        ret[1] = Least(Holding(arr, Len(arr), target - At(arr, ret[2])))

\* C7 amended: the table maps each value seen so far to the index of its most
\* recent occurrence among the elements scanned, and a returned i is the
\* largest index below j holding t - S[j].
C7_LastOccurrence ==
    /\ pc \in {"two_sum", "ts_return"} =>
        /\ DOMAIN hashmap = Prefix(arr, i)
        /\ \A v \in DOMAIN hashmap : hashmap[v] = Greatest(Holding(arr, i, v))
    /\ ReturnedPair =>
        ret[1] = Greatest(Holding(arr, ret[2], target - At(arr, ret[2])))

\* a value seen twice: the second index has replaced the first
C7_Witness ==
    /\ pc = "two_sum" /\ i = 2 /\ Len(arr) > 2
    /\ At(arr, 0) = At(arr, 1)
    /\ hashmap[At(arr, 0)] = 1

\* C8: a later occurrence overwrites the stored index: a returned i is the
\* largest index below j with S[i] == t - S[j]; [1,1,2] with t = 3 gives [1,2].
C8_MostRecent ==
    /\ ReturnedPair =>
        /\ At(arr, ret[1]) = target - At(arr, ret[2])
        /\ \A k \in (ret[1] + 1)..(ret[2] - 1) : At(arr, k) # target - At(arr, ret[2])
    /\ (pc = "ts_return" /\ arr = <<1, 1, 2>> /\ target = 3) => ret = <<1, 2>>

C8_Witness ==
    pc = "ts_return" /\ arr = <<1, 1, 2>> /\ target = 3 /\ ret = <<1, 2>>

\* C9: containsDuplicate returns True at the smallest position that repeats
\* an earlier value, having examined exactly the positions up to it; it
\* returns False only after examining every position exactly once.
C9_ShortCircuit ==
    /\ (pc = "cd_return" /\ cdret) =>
        /\ pos < Len(nums)
        /\ Repeats(nums, pos)
        /\ \A y \in 0..(pos - 1) : ~Repeats(nums, y)
        /\ visited = UpTo(pos + 1)
    /\ (pc = "cd_return" /\ ~cdret) => visited = UpTo(Len(nums))

\* True is returned with an element left unexamined
C9_Witness ==
    pc = "cd_return" /\ cdret /\ nums = <<1, 1, 0>> /\ visited = <<0, 1>>

\* C10: at the start of every iteration i the keys of the table are the
\* values S[0..i-1], every entry v -> k has 0 <= k < i and S[k] == v, no two
\* distinct indices below i sum to the target, the scan has visited
\* 0, 1, ..., i-1 in order, and it never runs more than len(S) iterations.
C10_LoopInvariant ==
    /\ pc = "two_sum" =>
        /\ i <= Len(arr)
        /\ DOMAIN hashmap = Prefix(arr, i)
        /\ \A v \in DOMAIN hashmap :
              0 <= hashmap[v] /\ hashmap[v] < i /\ At(arr, hashmap[v]) = v
        /\ \A x \in 0..(i - 1), y \in 0..(i - 1) :
              x # y => At(arr, x) + At(arr, y) # target
        /\ visited = UpTo(i)
    /\ pc \in {"two_sum", "ts_return"} => Len(visited) <= Len(arr)

\* the third iteration is about to start
C10_Witness ==
    pc = "two_sum" /\ i = 2 /\ Len(arr) = 3 /\ Cardinality(DOMAIN hashmap) = 2

====
